---- MODULE Spec2Model ----
(***************************************************************************)
(* Model of blocks/dynamic-media-video/dynamic-media-video.js: the module  *)
(* level cache dmViewerPromise and the readiness gate (loadDMVideoViewer,  *)
(* waitForDMViewer), the decoration entry point decorate(block), the       *)
(* analytics bridge setupAnalytics / fireAnalyticsEvent.                   *)
(*                                                                         *)
(* Strings the code compares character by character (flag texts) are       *)
(* sequences of one-character strings.  URLs are sequences of tokens in    *)
(* which every "/" is a token of its own and no other token holds a "/",   *)
(* so that the code's regular expression and the URL parser act on the     *)
(* same text.                                                              *)
(***************************************************************************)
EXTENDS Integers, Sequences, FiniteSets, TLC

\* ------------------------------------------------------------------ bounds
NumCalls == 2
MaxLag == 2
MaxTicks == 3
MaxTime == 4
MaxDuration == 4

\* ------------------------------------------------------- program constants
DefaultTimeout == 10000
PollInterval == 100

Procs == 1..NumCalls

\* ================================================================ strings
Whitespace == {" ", "\t", "\n"}

LowerChar(c) ==
  CASE c = "T" -> "t" [] c = "R" -> "r" [] c = "U" -> "u" [] c = "E" -> "e"
    [] c = "F" -> "f" [] c = "A" -> "a" [] c = "L" -> "l" [] c = "S" -> "s"
    [] c = "Y" -> "y" [] OTHER -> c

\* String.prototype.toLowerCase
toLowerCase(s) == [i \in 1..Len(s) |-> LowerChar(s[i])]

RECURSIVE TrimStart(_)
TrimStart(s) ==
  IF s # <<>> /\ Head(s) \in Whitespace THEN TrimStart(Tail(s)) ELSE s

RECURSIVE TrimEnd(_)
TrimEnd(s) ==
  IF s # <<>> /\ s[Len(s)] \in Whitespace THEN TrimEnd(SubSeq(s, 1, Len(s) - 1)) ELSE s

\* String.prototype.trim
trim(s) == TrimEnd(TrimStart(s))

S_true == <<"t", "r", "u", "e">>
S_TRUE == <<"T", "R", "U", "E">>
S_True == <<"T", "r", "u", "e">>
S_false == <<"f", "a", "l", "s", "e">>
S_yes == <<"y", "e", "s">>
S_true_padded == <<" ", "t", "r", "u", "e", "\n">>
S_blank == <<" ">>
S_empty == <<>>

\* ============================================================== block rows
\* A child of the block: its class, its first <p> and first <div> descendant
\* (querySelector), and its own textContent.
NoEl == [exists |-> FALSE, text |-> S_empty]
El(t) == [exists |-> TRUE, text |-> t]
Child(cls, p, div, text) == [cls |-> cls, p |-> p, div |-> div, text |-> text]
\* a Universal Editor row <div><div><p>t</p></div></div>
PRow(t) == Child("row", El(t), El(t), t)
\* a row <div><div>t</div></div>
DivRow(t) == Child("row", NoEl, El(t), t)
\* a row <div>t</div>
TextRow(t) == Child("row", NoEl, NoEl, t)
\* a row whose first <p> is empty and whose text sits in a later element
EmptyPRow(t) == Child("row", El(S_empty), NoEl, t)
\* an element already marked as player UI
UiChild == Child("dm-video-ui", NoEl, NoEl, S_empty)

\* a data-* attribute: dataset[name] is undefined when it is absent
NoAttr == [present |-> FALSE, value |-> S_empty]
Attr(v) == [present |-> TRUE, value |-> v]

\* getTextFromRow (lines 191-197)
getTextFromRow(children, index) ==
  IF index + 1 > Len(children) THEN S_empty
  ELSE LET row == children[index + 1]
           textEl == IF row.p.exists THEN row.p ELSE row.div
           own == IF textEl.exists THEN trim(textEl.text) ELSE S_empty
       IN IF own # S_empty THEN own ELSE trim(row.text)

\* bug variant: the row text is consulted before the data attribute
getBoolFromDataOrRow_rowFirst(dataset, children, attrName, rowIndex, defaultValue) ==
  LET rowValue == getTextFromRow(children, rowIndex)
  IN IF rowValue # S_empty THEN toLowerCase(rowValue) = S_true
     ELSE IF dataset[attrName].present THEN toLowerCase(dataset[attrName].value) = S_true
     ELSE defaultValue

\* getBoolFromDataOrRow (lines 200-211)
getBoolFromDataOrRow(dataset, children, attrName, rowIndex, defaultValue) ==
  IF dataset[attrName].present
  THEN toLowerCase(dataset[attrName].value) = S_true
  ELSE LET rowValue == getTextFromRow(children, rowIndex)
       IN IF rowValue # S_empty THEN toLowerCase(rowValue) = S_true
          ELSE defaultValue

\* showControls (lines 217-219)
showControlsOf(dataset) ==
  IF dataset["controls"].present
  THEN toLowerCase(dataset["controls"].value) = S_true
  ELSE TRUE

\* the flags of lines 214-219
ResolveFlags(dataset, children) ==
  [autoplay |-> getBoolFromDataOrRow(dataset, children, "autoplay", 2, FALSE),
   loop |-> getBoolFromDataOrRow(dataset, children, "loop", 3, FALSE),
   muted |-> getBoolFromDataOrRow(dataset, children, "muted", 4, FALSE),
   showControls |-> showControlsOf(dataset)]

\* =================================================================== URLs
Schemes == {"https:", "http:"}
UserInfos == {"user@"}
HostNames == {"h", "adobe"}
Ports == {":8443"}

\* lower-casing of the path tokens (the pattern carries the i flag)
LowerTok(t) ==
  CASE t = "ADOBE" -> "adobe" [] t = "Assets" -> "assets"
    [] t = "URN:X" -> "urn:x" [] OTHER -> t

\* tokens that start with "urn:" (lower-cased), and those with at least one
\* more character after it
UrnStartToks == {"urn:", "urn:x", "urn:y"}
UrnFullToks == {"urn:x", "urn:y"}

NoMatch == [found |-> FALSE, path |-> <<>>]

\* the end of the run of non-slash tokens that starts at position i
RECURSIVE RunEnd(_, _)
RunEnd(u, i) ==
  IF i + 1 <= Len(u) /\ u[i + 1] # "/" THEN RunEnd(u, i + 1) ELSE i

\* whether /(\/adobe\/assets\/urn:[^/]+)/i matches at token i
MatchesAt(u, i) ==
  /\ i + 5 <= Len(u)
  /\ u[i] = "/" /\ LowerTok(u[i + 1]) = "adobe"
  /\ u[i + 2] = "/" /\ LowerTok(u[i + 3]) = "assets"
  /\ u[i + 4] = "/" /\ LowerTok(u[i + 5]) \in UrnStartToks
  /\ \/ LowerTok(u[i + 5]) \in UrnFullToks
     \/ (i + 6 <= Len(u) /\ u[i + 6] # "/")

\* videoUrl.match(urnPattern) (lines 159-160): leftmost match, match[1]
UrnMatch(u) ==
  LET starts == {i \in 1..Len(u) : MatchesAt(u, i)}
  IN IF starts = {} THEN NoMatch
     ELSE LET i == CHOOSE k \in starts : \A j \in starts : k <= j
          IN [found |-> TRUE, path |-> SubSeq(u, i, RunEnd(u, i + 5))]

BadURL == [ok |-> FALSE, protocol |-> "", hostname |-> ""]

\* new URL(videoUrl) (line 170): protocol and hostname of
\* scheme "//" [userinfo] hostname [port] ...; a TypeError otherwise
ParseURL(u) ==
  LET n == Len(u)
      auth == n >= 4 /\ u[1] \in Schemes /\ u[2] = "/" /\ u[3] = "/"
      h == IF auth /\ u[4] \in UserInfos THEN 5 ELSE 4
  IN IF auth /\ h <= n /\ u[h] \in HostNames
     THEN [ok |-> TRUE, protocol |-> u[1], hostname |-> u[h]]
     ELSE BadURL

PosterSuffix == <<"/", "as", "/", "thumbnail.jpeg?preferwebp=true">>
DashSuffix == <<"/", "manifest.mpd">>
HlsSuffix == <<"/", "manifest.m3u8">>

NoUrls == [poster |-> <<>>, dash |-> <<>>, hls |-> <<>>]

\* lines 170-179
DeriveUrls(url, assetIdPath) ==
  LET videoURLObj == ParseURL(url)
      baseUrl == <<videoURLObj.protocol, "/", "/", videoURLObj.hostname>>
  IN [poster |-> baseUrl \o assetIdPath \o PosterSuffix,
      dash |-> baseUrl \o assetIdPath \o DashSuffix,
      hls |-> baseUrl \o assetIdPath \o HlsSuffix]

\* ================================================== chapters (data-chapters)
\* A JSON value as far as the code looks at it: its type, its length
\* property (strings and arrays) and, for an array, the kind of each element.
JArr(items) == [t |-> "arr", len |-> Len(items), items |-> items]
JStr(n) == [t |-> "str", len |-> n, items |-> <<>>]
JNull == [t |-> "null", len |-> 0, items |-> <<>>]
JObj == [t |-> "obj", len |-> 0, items |-> <<>>]

NoChaptersAttr == [present |-> FALSE, text |-> ""]
ChaptersAttr(text) == [present |-> TRUE, text |-> text]

Txt_malformed == "[{label:Intro"
Txt_null == "null"
Txt_string == "\"ab\""
Txt_object == "{}"
Txt_emptyList == "[]"
Txt_twoChapters == "[{\"label\":\"Intro\",\"time\":0},{\"label\":\"A\",\"time\":30}]"
Txt_nullItem == "[null]"

\* JSON.parse on the texts above: a value, or a SyntaxError
JSONParse(text) ==
  CASE text = Txt_null -> [ok |-> TRUE, val |-> JNull]
    [] text = Txt_string -> [ok |-> TRUE, val |-> JStr(2)]
    [] text = Txt_object -> [ok |-> TRUE, val |-> JObj]
    [] text = Txt_emptyList -> [ok |-> TRUE, val |-> JArr(<<>>)]
    [] text = Txt_twoChapters -> [ok |-> TRUE, val |-> JArr(<<"obj", "obj">>)]
    [] text = Txt_nullItem -> [ok |-> TRUE, val |-> JArr(<<"null">>)]
    [] OTHER -> [ok |-> FALSE, val |-> JNull]

\* bug variant: a parse failure is not caught
ParseChapters_uncaught(attr) ==
  IF attr.present /\ attr.text # ""
  THEN [threw |-> ~JSONParse(attr.text).ok, val |-> JSONParse(attr.text).val]
  ELSE [threw |-> FALSE, val |-> JArr(<<>>)]

\* lines 223-231: chapters = [] unless the attribute is a non-empty text
\* that parses; a SyntaxError is caught and logged
ParseChapters(attr) ==
  IF attr.present /\ attr.text # "" /\ JSONParse(attr.text).ok
  THEN [threw |-> FALSE, val |-> JSONParse(attr.text).val]
  ELSE [threw |-> FALSE, val |-> JArr(<<>>)]

NoChaptersUi == [threw |-> FALSE, container |-> FALSE, buttons |-> 0]

\* lines 252-265, outside any try: chapters.length of null is a TypeError,
\* forEach exists on arrays only, chapter.label of a null element is a
\* TypeError; the container is appended to the block after the loop
RenderChapters(chapters) ==
  IF chapters.t = "null" THEN [threw |-> TRUE, container |-> FALSE, buttons |-> 0]
  ELSE IF chapters.len = 0 THEN NoChaptersUi
  ELSE IF chapters.t # "arr" THEN [threw |-> TRUE, container |-> FALSE, buttons |-> 0]
  ELSE IF \E i \in 1..Len(chapters.items) : chapters.items[i] = "null"
       THEN [threw |-> TRUE, container |-> FALSE, buttons |-> 0]
  ELSE [threw |-> FALSE, container |-> TRUE, buttons |-> chapters.len]

\* ==================================================== player construction
NoParams ==
  [posterimage |-> <<>>, autoplay |-> "", loop |-> "", muted |-> "",
   hidecontrolbar |-> "", DASH |-> <<>>, HLS |-> <<>>]

\* lines 267-277
BuildParams(urls, flags) ==
  [posterimage |-> urls.poster,
   autoplay |-> IF flags.autoplay THEN "1" ELSE "0",
   loop |-> IF flags.loop THEN "1" ELSE "0",
   muted |-> IF flags.muted THEN "1" ELSE "0",
   hidecontrolbar |-> IF flags.showControls THEN "0" ELSE "1",
   DASH |-> urls.dash, HLS |-> urls.hls]

\* What the third-party viewer does in one decoration: the constructor and
\* init() return or throw, and getMediaPlayer is missing ("nofn"), throws,
\* returns nothing ("null"), returns an object without addEventListener
\* ("noevents") or returns a media player ("player").  A call that is never
\* reached is "unread".
ExtOutcomes ==
  {[ctor |-> "throw", init |-> "unread", media |-> "unread"],
   [ctor |-> "ok", init |-> "throw", media |-> "unread"]}
  \cup {[ctor |-> "ok", init |-> "ok", media |-> m] :
          m \in {"nofn", "throws", "null", "noevents", "player"}}
ExtUnread == [ctor |-> "unread", init |-> "unread", media |-> "unread"]

\* setupAnalytics up to its listeners (lines 78-87): skipped without a media
\* player, a TypeError when the handle has no addEventListener
SetupAnalyticsOutcome(media) ==
  CASE media \in {"nofn", "null"} -> "skipped"
    [] media \in {"throws", "noevents"} -> "threw"
    [] OTHER -> "wired"

\* bug variant: the catch block logs and leaves the marker alone
TryConstruct_markerLeft(ext) ==
  IF ext.ctor = "throw" \/ ext.init = "throw" \/ SetupAnalyticsOutcome(ext.media) = "threw"
  THEN [marker |-> "loading", markerAtCtor |-> "loading", ctorCalls |-> 1,
        wired |-> FALSE]
  ELSE [marker |-> "true", markerAtCtor |-> "loading", ctorCalls |-> 1,
        wired |-> SetupAnalyticsOutcome(ext.media) = "wired"]

\* lines 279-297: the marker is 'loading' when the constructor is called;
\* any exception of the constructor, init() or setupAnalytics is caught
TryConstruct(ext) ==
  IF ext.ctor = "throw" \/ ext.init = "throw" \/ SetupAnalyticsOutcome(ext.media) = "threw"
  THEN [marker |-> "error", markerAtCtor |-> "loading", ctorCalls |-> 1,
        wired |-> FALSE]
  ELSE [marker |-> "true", markerAtCtor |-> "loading", ctorCalls |-> 1,
        wired |-> SetupAnalyticsOutcome(ext.media) = "wired"]

\* ================================================================ decorate
NoLink == [present |-> FALSE, href |-> <<>>]
Link(href) == [present |-> TRUE, href |-> href]

\* lines 151-153
HideAll(children) == 1..Len(children)

\* lines 234-238
HideAuthored(children) ==
  {i \in 1..Len(children) : children[i].cls # "dm-video-ui"}

\* The block before decoration: its first a[href] (href as the DOM returns
\* it), its children, its dataset.
Block(link, children, dataset) ==
  [link |-> link, children |-> children, dataset |-> dataset,
   baseClass |-> FALSE, chapters |-> NoChaptersAttr, ext |-> ExtUnread,
   gate |-> "none", path |-> "none", marker |-> "unset", hidden |-> {},
   wrapper |-> FALSE, chaptersUi |-> NoChaptersUi, ctorCalls |-> 0,
   markerAtCtor |-> "unset", wired |-> FALSE, params |-> NoParams,
   result |-> "pending"]

\* decorate returns after setting the error marker
Abort(b, path) == [b EXCEPT !.path = path, !.marker = "error", !.result = "fulfilled"]

\* bug variant: the no-link branch leaves the children visible
NoLinkPath_visible(b) == Abort(b, "noLink")

\* lines 149-156
NoLinkPath(b) == [Abort(b, "noLink") EXCEPT !.hidden = HideAll(b.children)]

\* bug variant: the pattern mismatch is logged and decoration goes on
BadUrlPath_continue(b) ==
  [b EXCEPT !.path = "badUrl", !.marker = "true", !.wrapper = TRUE,
            !.ctorCalls = 1, !.result = "fulfilled"]

\* lines 162-167
BadUrlPath(b) == Abort(b, "badUrl")

\* lines 169-297 for a link that matches the pattern
RenderPath(b, chaptersAttr, ext) ==
  IF ~ParseURL(b.link.href).ok
  THEN [b EXCEPT !.path = "urlThrow", !.result = "rejected"]
  ELSE
    LET urls == DeriveUrls(b.link.href, UrnMatch(b.link.href).path)
        flags == ResolveFlags(b.dataset, b.children)
        parsed == ParseChapters(chaptersAttr)
        shown == [b EXCEPT !.chapters = chaptersAttr,
                           !.hidden = HideAuthored(b.children),
                           !.wrapper = TRUE]
        ui == RenderChapters(parsed.val)
    IN IF parsed.threw
       THEN [b EXCEPT !.chapters = chaptersAttr, !.path = "chaptersThrow",
                      !.result = "rejected"]
       ELSE IF ui.threw
       THEN [shown EXCEPT !.path = "chaptersThrow", !.result = "rejected"]
       ELSE LET built == TryConstruct(ext)
            IN [shown EXCEPT !.path = "construct", !.chaptersUi = ui,
                             !.ext = ext, !.params = BuildParams(urls, flags),
                             !.marker = built.marker,
                             !.markerAtCtor = built.markerAtCtor,
                             !.ctorCalls = built.ctorCalls,
                             !.wired = built.wired,
                             !.result = "fulfilled"]

\* decorate after `await loadDMVideoViewer()` (lines 132-297)
DecorateTail(b, gateState, available, chaptersAttr, ext) ==
  LET seen == [b EXCEPT !.gate = gateState]
  IN IF gateState = "rejected" THEN Abort(seen, "gateFail")
     ELSE IF ~available THEN Abort(seen, "noViewer")
     ELSE IF ~seen.link.present THEN NoLinkPath(seen)
     ELSE IF ~UrnMatch(seen.link.href).found THEN BadUrlPath(seen)
     ELSE RenderPath(seen, chaptersAttr, ext)

\* ========================================================= readiness gate
\* bug variant: a failed attempt is forgotten and the next caller loads again
NeedsLoad_retryAfterFailure(promise) == promise \in {"undefined", "rejected"}

\* `if (!dmViewerPromise)` (line 38): a promise object is never falsy
NeedsLoad(promise) == promise = "undefined"

\* loadScript of scripts/aem.js: nothing is requested when the script
\* element is already in the document
LoadScriptSkips(inDom) == inDom

\* bug variant: the timeout is never detected
PollOutcome_noTimeout(available, now) ==
  IF available
  THEN [promise |-> "fulfilled", error |-> "none", interval |-> "cleared"]
  ELSE [promise |-> "pending", error |-> "none", interval |-> "active"]

\* the interval callback of waitForDMViewer (lines 21-29), `now` being
\* Date.now() - startTime
PollOutcome(available, now) ==
  IF available
  THEN [promise |-> "fulfilled", error |-> "none", interval |-> "cleared"]
  ELSE IF now > DefaultTimeout
  THEN [promise |-> "rejected", error |-> "timeout", interval |-> "cleared"]
  ELSE [promise |-> "pending", error |-> "none", interval |-> "active"]

\* ================================================================== state
VARIABLES
  dmViewerPromise,  \* line 5: "undefined" | "pending" | "fulfilled" | "rejected"
  gateError,        \* what the promise rejected with: "none" | "load" | "timeout"
  gatePc,           \* the async function of lines 39-44: "none" | "awaitLoad" | "polling" | "done"
  loadScriptP,      \* the promise loadScript returned: "none" | "pending" | "resolved" | "rejected"
  scriptInDom,      \* the viewer's script element is in the document
  viewerAvailable,  \* window.dmviewers?.VideoViewer
  checkInterval,    \* the setInterval of line 21: "none" | "active" | "cleared"
  elapsed,          \* Date.now() - startTime at the last interval callback
  waited,           \* history: Date.now() - startTime when the gate timed out
  loadScriptCalls,  \* history: calls of loadScript
  pollLoops,        \* history: calls of setInterval
  promiseWrites,    \* history: assignments to dmViewerPromise
  pc,               \* per decorate call: "idle" | "awaitGate" | "done"
  blk,              \* per decorate call: its block
  late,             \* history: the call was made after the gate had settled
  source,           \* URL derivation alone: the authored link
  derived,          \* URL derivation alone: its outcome
  flagBlock,        \* flag resolution alone: dataset and children
  flagParams,       \* flag resolution alone: the params built
  player,           \* the media player: currentTime, duration
  hitMilestones,    \* line 91
  adobeDataLayer,   \* window.adobeDataLayer
  consoleDebug,     \* what went to console.debug instead
  tickNo,           \* history: timeupdate events so far
  firstReach,       \* history: per milestone, the first tick that reached it
  emitTick          \* history: per milestone, the tick that emitted it

gateVars ==
  <<dmViewerPromise, gateError, gatePc, loadScriptP, scriptInDom, checkInterval,
    elapsed, waited, loadScriptCalls, pollLoops, promiseWrites>>
procVars == <<pc, blk, late>>
urlVars == <<source, derived>>
flagVars == <<flagBlock, flagParams>>
analyticsVars ==
  <<player, hitMilestones, adobeDataLayer, consoleDebug, tickNo, firstReach, emitTick>>
vars == <<gateVars, viewerAvailable, procVars, urlVars, flagVars, analyticsVars>>

Settled == {"fulfilled", "rejected"}

\* ----------------------------------------------------- blocks of the page
Href_noSegment == <<"https:", "/", "/", "h", "/", "content", "/", "video.mp4">>
Href_asset ==
  <<"https:", "/", "/", "h", "/", "adobe", "/", "assets", "/", "urn:x", "/", "as", "/", "video.mp4">>
\* an href the URL parser rejects: the DOM returns the attribute as written
Href_unparseable == <<"https:", "/", "/", "[", "/", "adobe", "/", "assets", "/", "urn:x">>

PageLinks == {NoLink, Link(Href_noSegment), Link(Href_asset), Link(Href_unparseable)}

PageDataset ==
  [a \in {"autoplay", "loop", "muted", "controls"} |->
     IF a = "autoplay" THEN Attr(S_false) ELSE NoAttr]
PageChildren == <<PRow(S_yes), PRow(S_yes), PRow(S_true), UiChild, PRow(S_TRUE)>>

PageBlocks == {Block(l, PageChildren, PageDataset) : l \in PageLinks}

PageChapters ==
  {NoChaptersAttr} \cup
  {ChaptersAttr(t) : t \in {"", Txt_malformed, Txt_null, Txt_string, Txt_object,
                            Txt_emptyList, Txt_twoChapters, Txt_nullItem}}

\* --------------------------------------------------------- idle sub-states
NoSource == [href |-> <<>>, origin |-> <<>>, asset |-> <<>>, shape |-> "none"]
NoDerived == [status |-> "none", urls |-> NoUrls]
NoFlagBlock ==
  [dataset |-> [a \in {"autoplay", "loop", "muted", "controls"} |-> NoAttr],
   children |-> <<>>]
NoPlayer == [currentTime |-> 0, duration |-> 0]
NoDataLayer == [present |-> FALSE, items |-> <<>>]
Milestones == <<25, 50, 75>>
NoTicks == [i \in 1..3 |-> 0]

GateInit ==
  /\ dmViewerPromise = "undefined" /\ gateError = "none" /\ gatePc = "none"
  /\ loadScriptP = "none" /\ scriptInDom \in BOOLEAN
  /\ checkInterval = "none" /\ elapsed = 0 /\ waited = 0
  /\ loadScriptCalls = 0 /\ pollLoops = 0 /\ promiseWrites = 0
UrlIdle == source = NoSource /\ derived = NoDerived
FlagIdle == flagBlock = NoFlagBlock /\ flagParams = NoParams
AnalyticsIdle ==
  /\ player = NoPlayer /\ hitMilestones = {} /\ adobeDataLayer = NoDataLayer
  /\ consoleDebug = <<>> /\ tickNo = 0 /\ firstReach = NoTicks /\ emitTick = NoTicks

PageInit(blocks) ==
  /\ GateInit
  /\ viewerAvailable \in BOOLEAN
  /\ pc = [p \in Procs |-> "idle"]
  /\ blk \in [Procs -> blocks]
  /\ late = [p \in Procs |-> FALSE]
  /\ UrlIdle /\ FlagIdle /\ AnalyticsIdle

\* no decoration is under way: the state of the page for the checks of
\* URL derivation, flag resolution and the analytics bridge on their own
PageIdle ==
  /\ GateInit /\ scriptInDom = FALSE /\ viewerAvailable = FALSE
  /\ pc = [p \in Procs |-> "idle"]
  /\ blk = [p \in Procs |-> Block(NoLink, PageChildren, PageDataset)]
  /\ late = [p \in Procs |-> FALSE]

Init == PageInit(PageBlocks)

\* ----------------------------------------------------------------- actions
\* decorate(block) up to its await (lines 128-133), with loadDMVideoViewer
\* (lines 37-47) and the start of its async function up to `await loadScript`
Decorate(p) ==
  /\ pc[p] = "idle"
  /\ pc' = [pc EXCEPT ![p] = "awaitGate"]
  /\ blk' = [blk EXCEPT ![p].baseClass = TRUE]
  /\ late' = [late EXCEPT ![p] = dmViewerPromise \in Settled]
  /\ IF NeedsLoad(dmViewerPromise)
     THEN /\ dmViewerPromise' = "pending"
          /\ promiseWrites' = promiseWrites + 1
          /\ gateError' = "none"
          /\ gatePc' = "awaitLoad"
          /\ loadScriptCalls' = loadScriptCalls + 1
          /\ loadScriptP' = IF LoadScriptSkips(scriptInDom) THEN "resolved" ELSE "pending"
          /\ scriptInDom' = TRUE
          /\ UNCHANGED <<checkInterval, elapsed, waited, pollLoops>>
     ELSE UNCHANGED gateVars
  /\ UNCHANGED <<viewerAvailable, urlVars, flagVars, analyticsVars>>

\* the script element's load event
ScriptLoads ==
  /\ loadScriptP = "pending"
  /\ loadScriptP' = "resolved"
  /\ UNCHANGED <<dmViewerPromise, gateError, gatePc, scriptInDom, checkInterval,
                 elapsed, waited, loadScriptCalls, pollLoops, promiseWrites,
                 viewerAvailable, procVars, urlVars, flagVars, analyticsVars>>

\* the script element's error event
ScriptFails ==
  /\ loadScriptP = "pending"
  /\ loadScriptP' = "rejected"
  /\ UNCHANGED <<dmViewerPromise, gateError, gatePc, scriptInDom, checkInterval,
                 elapsed, waited, loadScriptCalls, pollLoops, promiseWrites,
                 viewerAvailable, procVars, urlVars, flagVars, analyticsVars>>

\* the viewer script defines window.dmviewers.VideoViewer
ViewerDefined ==
  /\ ~viewerAvailable /\ scriptInDom
  /\ viewerAvailable' = TRUE
  /\ UNCHANGED <<gateVars, procVars, urlVars, flagVars, analyticsVars>>

\* another script overwrites window.dmviewers
ViewerRemoved ==
  /\ viewerAvailable
  /\ viewerAvailable' = FALSE
  /\ UNCHANGED <<gateVars, procVars, urlVars, flagVars, analyticsVars>>

\* the async function of lines 39-44 after `await loadScript`: a rejection
\* of loadScript rejects dmViewerPromise; otherwise waitForDMViewer runs its
\* first check (lines 15-18) or starts the interval (lines 20-21)
GateResume ==
  /\ gatePc = "awaitLoad"
  /\ loadScriptP \in {"resolved", "rejected"}
  /\ IF loadScriptP = "rejected"
     THEN /\ dmViewerPromise' = "rejected" /\ gateError' = "load"
          /\ gatePc' = "done"
          /\ UNCHANGED <<checkInterval, elapsed, pollLoops>>
     ELSE IF viewerAvailable
     THEN /\ dmViewerPromise' = "fulfilled" /\ gatePc' = "done"
          /\ UNCHANGED <<gateError, checkInterval, elapsed, pollLoops>>
     ELSE /\ checkInterval' = "active" /\ elapsed' = 0
          /\ pollLoops' = pollLoops + 1
          /\ gatePc' = "polling"
          /\ UNCHANGED <<dmViewerPromise, gateError>>
  /\ UNCHANGED <<loadScriptP, scriptInDom, waited, loadScriptCalls, promiseWrites,
                 viewerAvailable, procVars, urlVars, flagVars, analyticsVars>>

\* one callback of the interval (lines 21-29); the callback may come late
PollTick ==
  /\ checkInterval = "active"
  /\ elapsed <= DefaultTimeout
  /\ \E lag \in 1..MaxLag :
       LET now == elapsed + lag * PollInterval
           out == PollOutcome(viewerAvailable, now)
       IN /\ checkInterval' = out.interval
          /\ elapsed' = IF out.interval = "active" THEN now ELSE 0
          /\ waited' = IF out.error = "timeout" THEN now ELSE waited
          /\ IF out.promise = "pending"
             THEN UNCHANGED <<dmViewerPromise, gateError, gatePc>>
             ELSE /\ dmViewerPromise' = out.promise
                  /\ gateError' = out.error
                  /\ gatePc' = "done"
  /\ UNCHANGED <<loadScriptP, scriptInDom, loadScriptCalls, pollLoops, promiseWrites,
                 viewerAvailable, procVars, urlVars, flagVars, analyticsVars>>

\* What a resumed decoration reads from the block and gets from the viewer:
\* data-chapters when it gets as far as line 224, the viewer's behaviour when
\* it gets as far as line 282.
ResumeInputs(b, gateState, available) ==
  IF gateState = "fulfilled" /\ available /\ b.link.present
     /\ UrnMatch(b.link.href).found /\ ParseURL(b.link.href).ok
  THEN {<<c, e>> : c \in PageChapters, e \in ExtOutcomes}
  ELSE {<<NoChaptersAttr, ExtUnread>>}

\* decorate after its await (lines 132-297), once dmViewerPromise has settled
DecorateResume(p) ==
  /\ pc[p] = "awaitGate"
  /\ dmViewerPromise \in Settled
  /\ \E in \in ResumeInputs(blk[p], dmViewerPromise, viewerAvailable) :
       blk' = [blk EXCEPT ![p] =
                 DecorateTail(blk[p], dmViewerPromise, viewerAvailable, in[1], in[2])]
  /\ pc' = [pc EXCEPT ![p] = "done"]
  /\ UNCHANGED <<gateVars, viewerAvailable, late, urlVars, flagVars, analyticsVars>>

Next ==
  \/ \E p \in Procs : Decorate(p)
  \/ ScriptLoads
  \/ ScriptFails
  \/ ViewerDefined
  \/ ViewerRemoved
  \/ GateResume
  \/ PollTick
  \/ \E p \in Procs : DecorateResume(p)

Spec == Init /\ [][Next]_vars

\* The gate under decorations of blocks that end at the link check.  The
\* event loop runs every queued continuation and every timer callback.
Href_bareUrn == <<"https:", "/", "/", "h", "/", "adobe", "/", "assets", "/", "urn:", "/", "x">>
GateInitPage ==
  PageInit({Block(l, PageChildren, PageDataset) :
              l \in {NoLink, Link(Href_noSegment), Link(Href_bareUrn)}})
GateSpec ==
  /\ GateInitPage /\ [][Next]_vars
  /\ WF_vars(GateResume)
  /\ WF_vars(PollTick)
  /\ \A p \in Procs : WF_vars(DecorateResume(p))

\* ------------------------------------------------ URL derivation on its own
\* The authored link by its parts; the DOM serialises them into href.
Segment == <<"/", "adobe", "/", "assets", "/", "urn:x">>
SegmentUpper == <<"/", "ADOBE", "/", "Assets", "/", "URN:X">>
SegmentBare == <<"/", "adobe", "/", "assets", "/", "urn:">>
SegmentOnHost == <<"/", "assets", "/", "urn:x">>
Sources ==
  [scheme : Schemes, userinfo : {<<>>, <<"user@">>}, host : {"h", "adobe", "["},
   port : {<<>>, <<":8443">>}, prefix : {<<>>, <<"/", "content">>},
   segment : {Segment, SegmentUpper, SegmentBare, SegmentOnHost},
   query : {<<>>, <<"?q=1">>},
   tail : {<<>>, <<"/", "as", "/", "video.mp4">>, <<"/", "adobe", "/", "assets", "/", "urn:y">>}]

Href(c) ==
  <<c.scheme, "/", "/">> \o c.userinfo \o <<c.host>> \o c.port \o c.prefix
    \o c.segment \o c.query \o c.tail

UrlInit ==
  /\ PageIdle /\ FlagIdle /\ AnalyticsIdle
  /\ source \in Sources
  /\ derived = NoDerived

\* lines 158-179 on the link's href
DeriveLinkUrls ==
  /\ derived.status = "none"
  /\ LET videoUrl == Href(source)
         match == UrnMatch(videoUrl)
     IN derived' =
          IF ~match.found THEN [status |-> "nomatch", urls |-> NoUrls]
          ELSE IF ~ParseURL(videoUrl).ok THEN [status |-> "throw", urls |-> NoUrls]
          ELSE [status |-> "ok", urls |-> DeriveUrls(videoUrl, match.path)]
  /\ UNCHANGED <<gateVars, viewerAvailable, procVars, source, flagVars, analyticsVars>>

SpecUrl == UrlInit /\ [][DeriveLinkUrls]_vars

\* ----------------------------------------------- flag resolution on its own
FlagAttrs == {NoAttr, Attr(S_empty), Attr(S_TRUE), Attr(S_false), Attr(S_true_padded)}
ControlAttrs == {NoAttr, Attr(S_True), Attr(S_false)}
FlagRows == {PRow(S_true_padded), EmptyPRow(S_True), DivRow(S_false), TextRow(S_blank), TextRow(S_yes)}
FlagChildren ==
  {<<PRow(S_yes), PRow(S_yes)>>}
  \cup {<<PRow(S_yes), PRow(S_yes), a>> : a \in FlagRows}
  \cup {<<PRow(S_yes), PRow(S_yes), a, b>> : a \in FlagRows, b \in FlagRows}
  \cup {<<PRow(S_yes), PRow(S_yes), a, b, c>> : a \in FlagRows, b \in FlagRows, c \in FlagRows}
FlagDatasets ==
  {[a \in {"autoplay", "loop", "muted", "controls"} |->
      CASE a = "autoplay" -> x [] a = "loop" -> y [] a = "muted" -> z [] OTHER -> c] :
     x \in FlagAttrs, y \in FlagAttrs, z \in FlagAttrs,
     c \in ControlAttrs}

FlagInit ==
  /\ PageIdle /\ UrlIdle /\ AnalyticsIdle
  /\ flagBlock \in [dataset : FlagDatasets, children : FlagChildren]
  /\ flagParams = NoParams

\* lines 188-219 and 267-277 on the block's dataset and children
ResolveBlockFlags ==
  /\ flagParams = NoParams
  /\ flagParams' = BuildParams(NoUrls, ResolveFlags(flagBlock.dataset, flagBlock.children))
  /\ UNCHANGED <<gateVars, viewerAvailable, procVars, urlVars, flagBlock, analyticsVars>>

SpecFlags == FlagInit /\ [][ResolveBlockFlags]_vars

\* ---------------------------------------------------------- analytics bridge
\* fireAnalyticsEvent (lines 55-70): the data layer when it is an array,
\* console.debug otherwise
Event(type, value) == [type |-> type, value |-> value]
PushAll(events) ==
  IF adobeDataLayer.present
  THEN /\ adobeDataLayer' = [adobeDataLayer EXCEPT !.items = @ \o events]
       /\ UNCHANGED consoleDebug
  ELSE /\ consoleDebug' = consoleDebug \o events
       /\ UNCHANGED adobeDataLayer

\* bug variant: a milestone already hit fires again
NewMilestones_repeat(hit, currentTime, duration) ==
  IF duration = 0 THEN <<>>
  ELSE SelectSeq(Milestones, LAMBDA m : 100 * currentTime >= m * duration)

\* the timeupdate listener (lines 93-104); milestones are percentages here,
\* so progress >= m reads 100 * currentTime >= m * duration; duration 0
\* stands for 0, NaN and undefined (`player.duration || 0`)
NewMilestones(hit, currentTime, duration) ==
  IF duration = 0 THEN <<>>
  ELSE SelectSeq(Milestones,
                 LAMBDA m : 100 * currentTime >= m * duration /\ m \notin hit)

Range(f) == {f[i] : i \in DOMAIN f}

AnalyticsInit ==
  /\ PageIdle /\ UrlIdle /\ FlagIdle
  /\ player = NoPlayer /\ hitMilestones = {}
  /\ adobeDataLayer \in {NoDataLayer, [present |-> TRUE, items |-> <<>>]}
  /\ consoleDebug = <<>>
  /\ tickNo = 0 /\ firstReach = NoTicks /\ emitTick = NoTicks

\* a timeupdate event of the media player
TimeUpdate ==
  /\ tickNo < MaxTicks
  /\ \E ct \in 0..MaxTime, dur \in 0..MaxDuration :
       LET fired == NewMilestones(hitMilestones, ct, dur)
       IN /\ player' = [currentTime |-> ct, duration |-> dur]
          /\ hitMilestones' = hitMilestones \cup Range(fired)
          /\ PushAll([i \in 1..Len(fired) |-> Event("milestone", fired[i])])
          /\ tickNo' = tickNo + 1
          /\ emitTick' = [i \in 1..3 |->
                IF Milestones[i] \in Range(fired) THEN tickNo + 1 ELSE emitTick[i]]
          /\ firstReach' = [i \in 1..3 |->
                IF firstReach[i] = 0 /\ dur > 0 /\ 100 * ct >= Milestones[i] * dur
                THEN tickNo + 1 ELSE firstReach[i]]
  /\ UNCHANGED <<gateVars, viewerAvailable, procVars, urlVars, flagVars>>

\* a play, pause or ended event of the media player (lines 85-87)
PlayerEvent ==
  /\ tickNo < MaxTicks
  /\ \E e \in {"play", "pause", "complete"} : PushAll(<<Event(e, 0)>>)
  /\ tickNo' = tickNo + 1
  /\ UNCHANGED <<player, hitMilestones, firstReach, emitTick,
                 gateVars, viewerAvailable, procVars, urlVars, flagVars>>

SpecAnalytics == AnalyticsInit /\ [][TimeUpdate \/ PlayerEvent]_vars

\* ================================================================= claims
Done(p) == pc[p] = "done"

\* C1: over any interleaving of decorate calls, loadScript is requested at
\* most once, at most one polling loop is started, dmViewerPromise is
\* assigned at most once and is never reset, and every caller that has
\* resumed observed the outcome of that single attempt.
C1_SingleAttempt ==
  /\ loadScriptCalls <= 1
  /\ pollLoops <= 1
  /\ promiseWrites <= 1
  /\ (\E p \in Procs : pc[p] # "idle") => dmViewerPromise # "undefined"
  /\ \A p \in Procs : Done(p) => blk[p].gate = dmViewerPromise

\* C1 witness: a concurrent caller and a caller that came after the gate had
\* settled have both resumed on the rejection of the one polling loop.
C1_Witness ==
  /\ \A p \in Procs : Done(p) /\ blk[p].gate = "rejected"
  /\ \E p, q \in Procs : ~late[p] /\ late[q]
  /\ pollLoops = 1 /\ loadScriptCalls = 1

AnalyticsReturns(ext) == ext.media \in {"nofn", "null", "player"}

C3_NeverRejects ==
  \A p \in Procs :
    Done(p) => /\ blk[p].result = "fulfilled"
               /\ blk[p].marker \in {"true", "error"}

\* C3 witness: with the gate resolved and a valid asset link, data-chapters
\* holding the JSON text null made decorate reject after the authored
\* children were hidden and the wrapper appended, the marker never set.
C3_Witness ==
  \E p \in Procs :
    /\ Done(p) /\ blk[p].chapters = ChaptersAttr(Txt_null)
    /\ blk[p].result = "rejected" /\ blk[p].marker = "unset"
    /\ blk[p].wrapper /\ blk[p].ctorCalls = 0

Authored(b) == {i \in 1..Len(b.children) : b.children[i].cls # "dm-video-ui"}

\* C5 (amended): a decoration that finishes with 'error' has hidden every
\* child on the no-link path; has hidden every child not marked dm-video-ui
\* and left the wrapper it appended in the block on the construction path;
\* and has hidden nothing and added nothing on the gate-failure,
\* capability-missing and malformed-URL paths.
C5_ErrorPaths ==
  \A p \in Procs :
    (Done(p) /\ blk[p].marker = "error") =>
      /\ blk[p].path \in {"gateFail", "noViewer", "noLink", "badUrl", "construct"}
      /\ blk[p].path = "noLink" =>
           blk[p].hidden = 1..Len(blk[p].children) /\ ~blk[p].wrapper
      /\ blk[p].path = "construct" =>
           blk[p].hidden = Authored(blk[p]) /\ blk[p].wrapper
      /\ blk[p].path \in {"gateFail", "noViewer", "badUrl"} =>
           blk[p].hidden = {} /\ ~blk[p].wrapper /\ ~blk[p].chaptersUi.container

\* C5 witness: an 'error' on the no-link path and one on the construction path.
C5_Witness ==
  \E p, q \in Procs :
    /\ Done(p) /\ blk[p].marker = "error" /\ blk[p].path = "noLink"
    /\ Done(q) /\ blk[q].marker = "error" /\ blk[q].path = "construct"

\* C5 as stated: whenever decorate finishes with 'error', every authored
\* child is hidden and no player element is in the block.
C5_Original ==
  \A p \in Procs :
    (Done(p) /\ blk[p].marker = "error") =>
      /\ Authored(blk[p]) \subseteq blk[p].hidden
      /\ ~blk[p].wrapper

C6_Safety ==
  /\ dmViewerPromise \in Settled => checkInterval # "active"
  /\ dmViewerPromise = "fulfilled" => gateError = "none" /\ loadScriptP = "resolved"
  /\ dmViewerPromise = "rejected" =>
       \/ gateError = "load" /\ loadScriptP = "rejected" /\ pollLoops = 0
       \/ /\ gateError = "timeout"
          /\ waited > DefaultTimeout
          /\ waited <= DefaultTimeout + MaxLag * PollInterval
C6_ResolveStep ==
  (dmViewerPromise # "fulfilled" /\ dmViewerPromise' = "fulfilled") => viewerAvailable
C6_Waiting == dmViewerPromise = "pending" /\ loadScriptP \in {"resolved", "rejected"}

LacksAssetSegment(b) ==
  ~b.link.present \/ \A i \in 1..Len(b.link.href) : ~MatchesAt(b.link.href, i)

\* C7: a block without a link, or whose first link does not hold the
\* /adobe/assets/urn:<non-slash-chars> segment (matched ignoring case, as the
\* code's pattern does), ends at 'error'; the constructor is never invoked
\* for it and no wrapper or chapter list is added.
C7_NoPlayerWithoutAsset ==
  \A p \in Procs :
    LacksAssetSegment(blk[p]) =>
      /\ blk[p].ctorCalls = 0 /\ ~blk[p].wrapper /\ ~blk[p].chaptersUi.container
      /\ Done(p) => blk[p].marker = "error" /\ blk[p].result = "fulfilled"

\* C7 witness: with the gate resolved and the viewer present, a block
\* without link and a block whose link stops at "urn:" both ended 'error'.
C7_Witness ==
  \E p, q \in Procs :
    /\ Done(p) /\ blk[p].path = "noLink" /\ ~blk[p].link.present
    /\ Done(q) /\ blk[q].path = "badUrl" /\ blk[q].link = Link(Href_bareUrn)

FailsToParse(attr) == attr.present /\ ~JSONParse(attr.text).ok

EmittedMilestones ==
  LET sink == IF adobeDataLayer.present THEN adobeDataLayer.items ELSE consoleDebug
      ms == SelectSeq(sink, LAMBDA e : e.type = "milestone")
  IN [i \in 1..Len(ms) |-> ms[i].value]

\* C4: over any sequence of timeupdate ticks each of the milestones 25, 50,
\* 75 is emitted at most once and in ascending order, a milestone is emitted
\* on the first tick with a known duration whose currentTime/duration
\* reaches it, and on no other tick (none while the duration is 0).
C4_Milestones ==
  LET e == EmittedMilestones
  IN /\ \A i, j \in 1..Len(e) : i < j => e[i] < e[j]
     /\ Range(e) = hitMilestones
     /\ \A i \in 1..3 :
          /\ emitTick[i] = firstReach[i]
          /\ (Milestones[i] \in Range(e)) <=> (firstReach[i] # 0)

\* C4 witness: the first tick skipped past two thresholds, the third tick
\* reached the last one, and all three milestones are out in order.
C4_Witness ==
  /\ EmittedMilestones = <<25, 50, 75>>
  /\ emitTick = <<1, 1, 3>>

\* ------------------------------------------------------------------- C9
IsTrueText(s) ==
  /\ Len(s) = 4
  /\ s[1] \in {"t", "T"} /\ s[2] \in {"r", "R"}
  /\ s[3] \in {"u", "U"} /\ s[4] \in {"e", "E"}

ExpectedFlag(name, rowIndex) ==
  LET a == flagBlock.dataset[name]
      rowText == getTextFromRow(flagBlock.children, rowIndex)
  IN IF a.present THEN IsTrueText(a.value)
     ELSE IF rowText # <<>> THEN IsTrueText(rowText)
     ELSE FALSE

Bit(b) == IF b THEN "1" ELSE "0"

\* C9: for autoplay, loop and muted a present data attribute decides the
\* flag (its value equals "true" ignoring case) whatever the row text is;
\* otherwise a non-empty row text decides it the same way; otherwise the
\* flag is false.  showControls is true without data-controls.  The player
\* gets the flags as '1'/'0', hidecontrolbar negating showControls.
C9_FlagResolution ==
  flagParams # NoParams =>
    /\ flagParams.autoplay = Bit(ExpectedFlag("autoplay", 2))
    /\ flagParams.loop = Bit(ExpectedFlag("loop", 3))
    /\ flagParams.muted = Bit(ExpectedFlag("muted", 4))
    /\ flagParams.hidecontrolbar =
         IF flagBlock.dataset["controls"].present
         THEN Bit(~IsTrueText(flagBlock.dataset["controls"].value))
         ELSE "0"

\* C9 witness: data-autoplay="false" over a row that reads "true" gives
\* autoplay '0', while loop is '1' from its row alone.
C9_Witness ==
  /\ flagParams # NoParams
  /\ flagBlock.dataset["autoplay"] = Attr(S_false)
  /\ getTextFromRow(flagBlock.children, 2) = S_true
  /\ flagParams.autoplay = "0"
  /\ ~flagBlock.dataset["loop"].present /\ flagParams.loop = "1"

\* ------------------------------------------------------------------ C10
\* the source URL has the form <origin>/adobe/assets/urn:<non-slash-chars><rest>
HasClaimedForm(c) ==
  /\ c.host \in HostNames
  /\ c.prefix = <<>>
  /\ c.segment \in {Segment, SegmentUpper} \/ (c.segment = SegmentBare /\ c.query # <<>>)

ExpectedUrls(origin, c) ==
  [poster |-> origin \o c.segment \o c.query \o PosterSuffix,
   dash |-> origin \o c.segment \o c.query \o DashSuffix,
   hls |-> origin \o c.segment \o c.query \o HlsSuffix]

\* C10 witness: URLs were derived from a source of the claimed form that
\* has a port and a rest, and the DASH URL is scheme://hostname + asset path
\* + "/manifest.mpd", the port gone.
C10_Witness ==
  /\ derived.status = "ok" /\ HasClaimedForm(source)
  /\ source.userinfo = <<>> /\ source.port # <<>> /\ source.tail # <<>>
  /\ derived.urls.dash =
       <<source.scheme, "/", "/", source.host>> \o source.segment \o source.query \o DashSuffix

\* C10: for every source URL <origin>/adobe/assets/urn:<non-slash-chars><rest>
\* the poster, DASH and HLS URLs are origin + asset path + the fixed suffix,
\* the origin being everything before the asset segment, the port included.
C10_Original ==
  (derived.status # "none" /\ HasClaimedForm(source) /\ source.userinfo = <<>>) =>
    /\ derived.status = "ok"
    /\ derived.urls =
         ExpectedUrls(<<source.scheme, "/", "/", source.host>> \o source.port, source)

====
